---- MODULE Spec2Model ----
(***************************************************************************)
(* NanoFilt: filtering and trimming of FASTQ reads from stdin to stdout.   *)
(* A model of src/nanofilt/NanoFilt.py: main, get_args, filter_stream and  *)
(* filter_using_summary.                                                   *)
(*                                                                         *)
(* Representation:                                                         *)
(*  - Python's None is the empty tuple <<>>, a present value v is <<v>>.   *)
(*  - A float GC value is the exact fraction [num, den].                   *)
(*  - Phred values are multiples of 10, so that 10^(-q/10) is a power of   *)
(*    ten and the comparison of ave_qual with the threshold is exact.      *)
(*    ave_qual's value is carried as the mean error probability it is the  *)
(*    -10*log10 of, scaled by 10^(PhredTop/10).                            *)
(*  - Reads are non-empty (ave_qual and the GC division need a base).      *)
(*  - Crop counts are absent or non-negative; `/` is true division         *)
(*    (Python 3), and the float comparisons are taken as exact.            *)
(*  - stdin is drawn one read at a time as SeqIO.parse yields it; read     *)
(*    keeps the identifiers read so far.                                   *)
(*  - stdout is kept as the identifiers written, in order, and the text of *)
(*    the record printed for the current loop variable.                    *)
(***************************************************************************)
EXTENDS Integers, Sequences, FiniteSets

VARIABLES pc, args, minlen, data, read, rec, printed, out, exitmsg

vars == <<pc, args, minlen, data, read, rec, printed, out, exitmsg>>

----------------------------------------------------------------------------
(* Bounds of the model *)

MaxLen == 3
MaxReads == 2

(* Value sets the inputs are drawn from *)

None == <<>>
Some(v) == <<v>>

ReadIDs == {"r1", "r2"}
Bases == {"A", "g"}
Phred == {10, 20}
SummaryQuals == {10}
LengthChoices == {0, 1}
CropChoices == {None, Some(0), Some(1)}
QualityChoices == {0, 10}
PhredTop == CHOOSE m \in Phred \cup QualityChoices :
                \A x \in Phred \cup QualityChoices : x <= m
Frac(n, d) == [num |-> n, den |-> d]
GCChoices == {Frac(0, 1), Frac(1, 2), Frac(1, 1)}

DefaultLength == 1
DefaultQuality == 0
DefaultMinGC == Frac(0, 1)
DefaultMaxGC == Frac(1, 1)

Records ==
    UNION { { [id |-> i, seq |-> s, qual |-> q] :
                i \in ReadIDs, s \in [1..n -> Bases], q \in [1..n -> Phred] } :
            n \in 1..MaxLen }

(* The reads SeqIO.parse can yield at position k of the stream: any read   *)
(* first, then runs of the letter g at the top Phred value.                *)
PlainRecords ==
    { r \in Records : \A i \in 1..Len(r.seq) :
                        r.seq[i] = "g" /\ r.qual[i] = PhredTop }

Reads(k) == IF k = 0 THEN Records ELSE PlainRecords

(* The rows process_summary hands back for the requested read type,        *)
(* columns readIDs and quals, one row per read at most.                    *)
Rows == [readIDs : ReadIDs, quals : SummaryQuals]
SummaryTables ==
    { t \in SUBSET Rows : \A x, y \in t : x.readIDs = y.readIDs => x = y }

Namespaces ==
    [length : LengthChoices, headcrop : CropChoices, tailcrop : CropChoices,
     quality : QualityChoices, minGC : GCChoices, maxGC : GCChoices,
     summary : {None} \cup { Some(t) : t \in SummaryTables }]

----------------------------------------------------------------------------
(* Python helpers *)

Max(a, b) == IF a >= b THEN a ELSE b
Min(a, b) == IF a <= b THEN a ELSE b

\* `x or 0` followed by int()
OrZero(x) == IF x = None \/ x = Some(0) THEN 0 ELSE x[1]

\* truth value of an optional integer
Truthy(x) == x # None /\ x # Some(0)

FracLeq(a, b) == a.num * b.den <= b.num * a.den
FracLt(a, b) == a.num * b.den < b.num * a.den

\* index of a slice bound in a sequence of length n
SliceIndex(x, n, dflt) ==
    IF x = None THEN dflt
    ELSE IF x[1] < 0 THEN Max(n + x[1], 0)
    ELSE Min(x[1], n)

\* s[lo:hi]
PySlice(s, lo, hi) ==
    SubSeq(s, SliceIndex(lo, Len(s), 0) + 1, SliceIndex(hi, Len(s), Len(s)))

\* rec[lo:hi] of a SeqRecord: sequence and per-letter annotations together
RecSlice(r, lo, hi) ==
    [id |-> r.id, seq |-> PySlice(r.seq, lo, hi), qual |-> PySlice(r.qual, lo, hi)]

Upper(b) == IF b = "g" THEN "G" ELSE IF b = "c" THEN "C" ELSE b

Count(s, b) == Cardinality({ i \in 1..Len(s) : Upper(s[i]) = b })

RECURSIVE SumErr(_)
SumErr(q) ==
    IF q = <<>> THEN 0 ELSE 10 ^ ((PhredTop - Head(q)) \div 10) + SumErr(Tail(q))

\* nanomath.ave_qual: -10*log10 of the mean error probability
ave_qual(quals) == Frac(SumErr(quals), Len(quals))

\* ave_qual(...) > q for an integer threshold q
QualGt(ave, q) == ave.num < ave.den * 10 ^ ((PhredTop - q) \div 10)
QualEq(ave, q) == ave.num = ave.den * 10 ^ ((PhredTop - q) \div 10)

----------------------------------------------------------------------------
(* get_args: the namespace parse_args returns, then the GC validation *)

\* faulty variant: the comparison the other way round
GCInvalidSwapped(a) == FracLt(a.minGC, a.maxGC)

GCInvalid(a) == FracLt(a.maxGC, a.minGC)

Init ==
    /\ pc = "get_args"
    /\ args \in Namespaces
    /\ minlen = 0
    /\ data = None
    /\ read = <<>>
    /\ rec = None
    /\ printed = None
    /\ out = <<>>
    /\ exitmsg = <<>>

get_args_exit ==
    /\ pc = "get_args"
    /\ GCInvalid(args)
    /\ pc' = "exit"
    /\ exitmsg' = <<"NanoFilt: error: argument --minGC should be smaller than --maxGC">>
    /\ UNCHANGED <<args, minlen, data, read, rec, printed, out>>

get_args_return ==
    /\ pc = "get_args"
    /\ ~GCInvalid(args)
    /\ pc' = "main"
    /\ UNCHANGED <<args, minlen, data, read, rec, printed, out, exitmsg>>

----------------------------------------------------------------------------
(* main: negate the tail crop, then dispatch on args.summary *)

\* faulty variant: the tail crop left positive
NegateTailcropForgotten(a) == a

NegateTailcrop(a) ==
    IF Truthy(a.tailcrop) THEN [a EXCEPT !.tailcrop = Some(-a.tailcrop[1])] ELSE a

\* faulty variant: the stored tail crop added instead of subtracted
MinLenSignSlip(a) == a.length + OrZero(a.headcrop) + OrZero(a.tailcrop)

\* filter_stream, the threshold computed before the loop
MinLen(a) == a.length + OrZero(a.headcrop) - OrZero(a.tailcrop)

\* filter_using_summary, the dictionary comprehension over the rows
BuildData(table) ==
    [i \in { x.readIDs : x \in table } |-> (CHOOSE x \in table : x.readIDs = i).quals]

main_filter_stream ==
    /\ pc = "main"
    /\ args.summary = None
    /\ args' = NegateTailcrop(args)
    /\ minlen' = MinLen(args')
    /\ pc' = "filter_stream"
    /\ UNCHANGED <<data, read, rec, printed, out, exitmsg>>

main_filter_using_summary ==
    /\ pc = "main"
    /\ args.summary # None
    /\ args' = NegateTailcrop(args)
    /\ data' = Some(BuildData(args.summary[1]))
    /\ pc' = "filter_using_summary"
    /\ UNCHANGED <<minlen, read, rec, printed, out, exitmsg>>

----------------------------------------------------------------------------
(* filter_stream: one iteration of the loop over SeqIO.parse(fq, "fastq") *)

GCNonDefault(a) == FracLt(DefaultMinGC, a.minGC) \/ FracLt(a.maxGC, DefaultMaxGC)

RealGC(r) == Frac(Count(r.seq, "C") + Count(r.seq, "G"), Len(r.seq))

\* faulty variant: the dummy given as a percentage
DummyGCPercent == Frac(50, 1)

DummyGC == Frac(1, 2)

GC(a, r) == IF GCNonDefault(a) THEN RealGC(r) ELSE DummyGC

\* faulty variants: a non-strict and a reversed length comparison
LengthTestGe(ml, r) == Len(r.seq) >= ml
LengthTestFlipped(ml, r) == Len(r.seq) < ml

LengthTest(ml, r) == Len(r.seq) > ml

StreamPass(a, ml, r) ==
    /\ QualGt(ave_qual(r.qual), a.quality)
    /\ LengthTest(ml, r)
    /\ FracLeq(a.minGC, GC(a, r)) /\ FracLeq(GC(a, r), a.maxGC)

Trim(a, r) == RecSlice(r, a.headcrop, a.tailcrop)

\* faulty variant: the record put in front of what was written
EmitFront(o, r) == <<r.id>> \o o

\* print(...format("fastq"), end="") appends to stdout
Emit(o, r) == Append(o, r.id)

filter_stream_record ==
    /\ pc = "filter_stream"
    /\ Len(read) < MaxReads
    /\ \E r \in Reads(Len(read)) :
        /\ read' = Append(read, r.id)
        /\ rec' = Some(r)
        /\ IF StreamPass(args, minlen, r)
             THEN /\ printed' = Some(Trim(args, r))
                  /\ out' = Emit(out, r)
             ELSE /\ printed' = None
                  /\ out' = out
    /\ UNCHANGED <<pc, args, minlen, data, exitmsg>>

filter_stream_end ==
    /\ pc = "filter_stream"
    /\ pc' = "done"
    /\ UNCHANGED <<args, minlen, data, read, rec, printed, out, exitmsg>>

----------------------------------------------------------------------------
(* filter_using_summary: one iteration of the loop inside the try block *)

KeyError(d, r) == r.id \notin DOMAIN d

\* faulty variant: the crop-adjusted threshold of filter_stream used here
SummaryPassCropAdjusted(a, d, r) == d[r.id] > a.quality /\ Len(r.seq) > MinLen(a)

SummaryPass(a, d, r) == d[r.id] > a.quality /\ Len(r.seq) > a.length

\* faulty variant: a read missing from the index is skipped
SummaryStepSkip(a, d, o, r) ==
    IF r.id \in DOMAIN d /\ d[r.id] > a.quality /\ Len(r.seq) > a.length
    THEN [pc |-> "filter_using_summary", out |-> Append(o, r.id),
          printed |-> Some(RecSlice(r, a.headcrop, a.tailcrop)), exitmsg |-> <<>>]
    ELSE [pc |-> "filter_using_summary", out |-> o, printed |-> None, exitmsg |-> <<>>]

\* the loop body and the except clause: what one read does to the run
SummaryStep(a, d, o, r) ==
    IF KeyError(d, r)
    THEN [pc |-> "exit", out |-> o, printed |-> None,
          exitmsg |-> <<"ERROR: mismatch between sequencing_summary and fastq file", r.id>>]
    ELSE IF SummaryPass(a, d, r)
    THEN [pc |-> "filter_using_summary", out |-> Emit(o, r),
          printed |-> Some(Trim(a, r)), exitmsg |-> <<>>]
    ELSE [pc |-> "filter_using_summary", out |-> o, printed |-> None, exitmsg |-> <<>>]

filter_using_summary_record ==
    /\ pc = "filter_using_summary"
    /\ Len(read) < MaxReads
    /\ \E r \in Reads(Len(read)) :
        LET s == SummaryStep(args, data[1], out, r) IN
        /\ read' = Append(read, r.id)
        /\ rec' = Some(r)
        /\ printed' = s.printed
        /\ out' = s.out
        /\ pc' = s.pc
        /\ exitmsg' = s.exitmsg
    /\ UNCHANGED <<args, minlen, data>>

filter_using_summary_end ==
    /\ pc = "filter_using_summary"
    /\ pc' = "done"
    /\ UNCHANGED <<args, minlen, data, read, rec, printed, out, exitmsg>>

----------------------------------------------------------------------------
Next ==
    \/ get_args_exit
    \/ get_args_return
    \/ main_filter_stream
    \/ main_filter_using_summary
    \/ filter_stream_record
    \/ filter_stream_end
    \/ filter_using_summary_record
    \/ filter_using_summary_end

Spec == Init /\ [][Next]_vars

----------------------------------------------------------------------------
(* Vocabulary of the properties *)

Abs(n) == IF n < 0 THEN -n ELSE n

\* the configured crop counts (absent = 0); main stores the tail count negated
HeadCount == IF args.headcrop = None THEN 0 ELSE args.headcrop[1]
TailCount == IF args.tailcrop = None THEN 0 ELSE Abs(args.tailcrop[1])

StreamMode == args.summary = None
Looping == pc \in {"filter_stream", "filter_using_summary", "done", "exit"}

InBand(lo, g, hi) == FracLeq(lo, g) /\ FracLeq(g, hi)
GCDefault == FracLeq(args.minGC, Frac(0, 1)) /\ FracLeq(Frac(1, 1), args.maxGC)

RECURSIVE IsSubseq(_, _)
IsSubseq(a, b) ==
    IF a = <<>> THEN TRUE
    ELSE IF b = <<>> THEN FALSE
    ELSE IF Head(a) = Head(b) THEN IsSubseq(Tail(a), Tail(b))
    ELSE IsSubseq(a, Tail(b))

----------------------------------------------------------------------------
C2_StreamDecision ==
    (StreamMode /\ rec # None) =>
        LET r == rec[1]
            ave == ave_qual(r.qual)
        IN  /\ printed # None <=>
                /\ QualGt(ave, args.quality)
                /\ Len(r.seq) > minlen
                /\ ~GCDefault => InBand(args.minGC, RealGC(r), args.maxGC)
            /\ QualEq(ave, args.quality) => printed = None
            /\ Len(r.seq) = minlen => printed = None
            /\ ( /\ args.length = DefaultLength /\ args.quality = DefaultQuality
                 /\ args.headcrop = None /\ args.tailcrop = None
                 /\ GCDefault /\ Len(r.seq) = 1 ) => printed = None

C2_Witness ==
    /\ StreamMode /\ rec # None /\ printed # None
    /\ args.minGC = Frac(1, 2) /\ RealGC(rec[1]).num * 2 = RealGC(rec[1]).den
    /\ Len(rec[1].seq) = minlen + 1

\* C3: in both modes the identifiers written are a subsequence of the
\* identifiers read: nothing is written twice or out of order.
C3_OutputOrder == IsSubseq(out, read) /\ Len(out) <= Len(read)

C3_Witness ==
    /\ Len(read) = 2 /\ read[1] # read[2]
    /\ out = read

\* C4: in summary mode the first read whose identifier is absent from the
\* index aborts the run with an error naming it, whatever the read holds;
\* what was written before stays written and nothing is written at or after it.
C4_AbsentAt(i) == i \in 1..Len(read) /\ read[i] \notin DOMAIN data[1]

C4_JoinErrorState ==
    (~StreamMode /\ data # None /\ \E i \in 1..Len(read) : C4_AbsentAt(i)) =>
        /\ pc = "exit"
        /\ \A i \in 1..Len(read) : C4_AbsentAt(i) => i = Len(read)
        /\ exitmsg # <<>> /\ exitmsg[Len(exitmsg)] = read[Len(read)]
        /\ rec[1].id = read[Len(read)]
        /\ printed = None
        /\ IsSubseq(out, SubSeq(read, 1, Len(read) - 1))

C4_JoinErrorStep ==
    /\ (pc = "filter_using_summary" /\ pc' = "exit") => out' = out
    /\ pc = "exit" => (out' = out /\ read' = read /\ pc' = pc)

C4_JoinError == [](C4_JoinErrorState) /\ [][C4_JoinErrorStep]_vars

C4_Witness ==
    /\ ~StreamMode /\ pc = "exit" /\ Len(exitmsg) = 2
    /\ Len(out) = 1 /\ Len(read) = 2
    /\ exitmsg[2] = read[2]

\* C5: in summary mode a read whose identifier is in the index is written
\* iff index[id] > min_quality and length > min_length; headcrop, tailcrop,
\* minGC and maxGC have no part in the decision.
C5_TailChoices == { NegateTailcrop([args EXCEPT !.tailcrop = c]).tailcrop : c \in CropChoices }

C5_SummaryDecision ==
    (~StreamMode /\ rec # None /\ data # None /\ rec[1].id \in DOMAIN data[1]) =>
        LET r == rec[1]
            now == SummaryPass(args, data[1], r)
        IN
        /\ printed # None <=>
              (data[1][r.id] > args.quality /\ Len(r.seq) > args.length)
        /\ \A h \in CropChoices, t \in C5_TailChoices :
              SummaryPass([args EXCEPT !.headcrop = h, !.tailcrop = t], data[1], r) = now
        /\ \A lo \in GCChoices, hi \in GCChoices :
              SummaryPass([args EXCEPT !.minGC = lo, !.maxGC = hi], data[1], r) = now

C5_Witness ==
    /\ ~StreamMode /\ rec # None /\ printed # None
    /\ args.headcrop = Some(1) /\ args.tailcrop = Some(-1)
    /\ FracLt(Frac(0, 1), args.minGC)
    /\ Len(rec[1].seq) = args.length + 1

\* C6: the stream filter is monotone: a read that passes under the running
\* configuration passes under every configuration with the same crops and
\* lower-or-equal min_length and min_quality, lower-or-equal minGC and
\* higher-or-equal maxGC (the default band included).
C6_MorePermissive ==
    { [args EXCEPT !.length = l, !.quality = q, !.minGC = lo, !.maxGC = hi] :
        l \in { x \in LengthChoices : x <= args.length },
        q \in { x \in QualityChoices : x <= args.quality },
        lo \in { x \in GCChoices : FracLeq(x, args.minGC) },
        hi \in { x \in GCChoices : FracLeq(args.maxGC, x) } }

C6_Monotone ==
    (StreamMode /\ rec # None /\ printed # None) =>
        \A a \in C6_MorePermissive : StreamPass(a, MinLen(a), rec[1])

C6_Witness ==
    /\ StreamMode /\ rec # None /\ printed # None
    /\ args.length = 1 /\ args.quality = 10
    /\ args.minGC = Frac(1, 2) /\ args.maxGC = Frac(1, 2)

\* C7: with minGC > maxGC the run ends in the configuration error before
\* anything is read or written and before the summary index is built.
C7_ConfigError ==
    FracLt(args.maxGC, args.minGC) =>
        /\ pc \in {"get_args", "exit"}
        /\ read = <<>> /\ rec = None
        /\ out = <<>> /\ printed = None
        /\ data = None
        /\ pc = "exit" => Len(exitmsg) = 1

C7_Witness ==
    /\ FracLt(args.maxGC, args.minGC) /\ pc = "exit"
    /\ args.summary # None

\* C8 as stated: the stream threshold is min_length + headcrop - tailcrop.
C8_Original ==
    (StreamMode /\ pc \in {"filter_stream", "done"}) =>
        minlen = args.length + HeadCount - TailCount

\* C8 amended: the stream threshold is min_length + headcrop + tailcrop,
\* fixed for the run (9 for min_length=5, headcrop=2, tailcrop=2), and a
\* written read is longer than it.
C8_Example ==
    [length |-> 5, headcrop |-> Some(2), tailcrop |-> Some(2), quality |-> 20,
     minGC |-> DefaultMinGC, maxGC |-> DefaultMaxGC, summary |-> None]

C8_Threshold ==
    /\ (StreamMode /\ pc \in {"filter_stream", "done"}) =>
          /\ minlen = args.length + HeadCount + TailCount
          /\ printed # None => Len(rec[1].seq) > args.length + HeadCount + TailCount
    /\ MinLen(NegateTailcrop(C8_Example)) = 9

C8_Witness ==
    /\ StreamMode /\ pc = "filter_stream"
    /\ HeadCount = 1 /\ TailCount = 1
    /\ printed # None

\* C9: in stream mode the length test passes exactly when the length left
\* after trimming, length - headcrop - tailcrop, is above min_length.
C9_PostTrimLength ==
    (StreamMode /\ rec # None) =>
        LET r == rec[1]
            post == Len(r.seq) - HeadCount - TailCount
        IN  /\ LengthTest(minlen, r) <=> post > args.length
            /\ printed # None => post > args.length
            /\ ( /\ post > args.length
                 /\ QualGt(ave_qual(r.qual), args.quality)
                 /\ InBand(args.minGC, GC(args, r), args.maxGC) ) => printed # None

C9_Witness ==
    /\ StreamMode /\ rec # None /\ printed = None
    /\ TailCount = 1 /\ HeadCount = 0
    /\ Len(rec[1].seq) = args.length + 1
    /\ QualGt(ave_qual(rec[1].qual), args.quality)
    /\ GCDefault

\* C10: with both GC bounds at their defaults the stream decision equals
\* that of a filter that always computes the real GC fraction.
C10_ShortCircuit ==
    (StreamMode /\ rec # None /\ GCDefault) =>
        LET r == rec[1] IN
        printed # None <=>
            /\ QualGt(ave_qual(r.qual), args.quality)
            /\ Len(r.seq) > minlen
            /\ InBand(args.minGC, RealGC(r), args.maxGC)

C10_Witness ==
    /\ StreamMode /\ rec # None /\ GCDefault /\ printed # None
    /\ RealGC(rec[1]).num = RealGC(rec[1]).den

====
